---- MODULE Spec2Model ----
(***************************************************************************)
(* The UI widget factory of d2core/d2systems (scene_widget_system.go):     *)
(* the three load queues, the bitmap font cache, the boot gate and the     *)
(* time-boxed Update loop, over an akara entity/component world.           *)
(***************************************************************************)
EXTENDS Integers, Sequences, FiniteSets, TLC

\* ------------------------------------------------------------------ bounds

\* Entities the world hands out in one run (NewEntity calls).
MaxEntities == 7
\* The largest cost, in clock ticks, of one unit of work of Update.
MaxUnitCost == 2
\* Entities the other systems of the world hold when the factory is
\* constructed, in the runs checked for liveness.
EntitiesInUse == 1
\* Entities the world hands out in a run of a scene that creates buttons only.
MaxSceneEntities == 8
\* Log calls the process makes in one run.
MaxCalls == 3
\* Updates of the button test scene in one run.
MaxSceneUpdates == 4

\* ------------------------------------------------------- program constants

fontCacheBudget == 64
\* The per-Update ceiling, in clock ticks of the model.
maxTimePerUpdate == 1
isNotSegmented == -1

Nil == "nil"
SceneStateUninitialized == "Uninitialized"
SceneStateBooted == "Booted"

\* ---------------------------------------------------------------- helpers

EmptyMap == [x \in {} |-> 0]
Put(f, k, v) == [x \in (DOMAIN f) \cup {k} |-> IF x = k THEN v ELSE f[x]]
Del(f, k) == [x \in (DOMAIN f) \ {k} |-> f[x]]
Has(f, k) == k \in DOMAIN f

\* --------------------------------------------------------------- the state

VARIABLES
    World,             \* akara.World: the entity counter and the live entities
    Components,        \* the component stores, one field per factory
    buttonLoadQueue,   \* button EID   -> [label, sprite]
    checkboxLoadQueue, \* checkbox EID -> [sprite]
    labelLoadQueue,    \* label EID    -> [table, sprite]
    state,             \* d2enum.SceneState of the factory
    RenderSystem,      \* the *RenderSystem field: nil or not, and its renderer
    bitmapFontCache,   \* [lookup: key -> font object, weight: used budget]
    spriteLoadQueue,   \* the sprite factory's pending sprites: EID -> paths
    pc,                \* where Update stands: "idle" or the loop it is in
    todo,              \* the entities the current range loop has yet to visit
    elapsed,           \* time.Since(start) of the running Update
    hist               \* history: what was built, rejected, marked and started

\* d2util.Logger and the process that uses it.
VARIABLES
    Logger,            \* the Logger's fields: level, and who holds the mutex
    Writer,            \* what has been written to the Logger's io.Writer
    goroutines,        \* the print goroutines started so far, in call order
    process            \* the calling thread: running, between go and Exit, exited

\* ButtonTestScene and the BaseScene it embeds.
VARIABLES
    ButtonTestScene,   \* the scene's own fields: state
    BaseScene,         \* the embedded BaseScene: booted, paused
    Translation,       \* button EID -> what the scene has added to its position
    sceneHist          \* history: the runs of createButtons, the Updates made

loggerVars == <<Logger, Writer, goroutines, process>>
sceneVars == <<ButtonTestScene, BaseScene, Translation, sceneHist>>

vars == <<World, Components, buttonLoadQueue, checkboxLoadQueue, labelLoadQueue,
          state, RenderSystem, bitmapFontCache, spriteLoadQueue, pc, todo,
          elapsed, hist, loggerVars, sceneVars>>

\* ------------------------------------------------------- d2util: log levels

LogLevelNone == 0
LogLevelFatal == 1
LogLevelError == 2
LogLevelWarning == 3
LogLevelInfo == 4
LogLevelDebug == 5
LogLevelUnspecified == 6
LogLevelDefault == LogLevelInfo

\* NewLogger: the default level, the mutex free; nothing written, no call made.
NewLogger ==
    /\ Logger = [level |-> LogLevelDefault, mutex |-> 0]
    /\ Writer = <<>>
    /\ goroutines = <<>>
    /\ process = "running"

\* NewButtonTestScene: the zero value of the scene's state; the base scene is
\* not booted and not paused.
NewButtonTestScene ==
    /\ ButtonTestScene = [state |-> SceneStateUninitialized]
    /\ BaseScene = [booted |-> FALSE, paused |-> FALSE]
    /\ Translation = EmptyMap
    /\ sceneHist = [createButtons |-> 0, updates |-> 0]

\* The receiver t of the factory's methods: everything they read and write.
Self ==
    [World |-> World, Components |-> Components,
     buttonLoadQueue |-> buttonLoadQueue, checkboxLoadQueue |-> checkboxLoadQueue,
     labelLoadQueue |-> labelLoadQueue, state |-> state,
     RenderSystem |-> RenderSystem, bitmapFontCache |-> bitmapFontCache,
     spriteLoadQueue |-> spriteLoadQueue, hist |-> hist]

Commit(t) ==
    /\ World' = t.World
    /\ Components' = t.Components
    /\ buttonLoadQueue' = t.buttonLoadQueue
    /\ checkboxLoadQueue' = t.checkboxLoadQueue
    /\ labelLoadQueue' = t.labelLoadQueue
    /\ state' = t.state
    /\ RenderSystem' = t.RenderSystem
    /\ bitmapFontCache' = t.bitmapFontCache
    /\ spriteLoadQueue' = t.spriteLoadQueue
    /\ hist' = t.hist

\* ------------------------------------------------------------ akara.World

\* World.NewEntity: the id the next call returns, and the world after it.
NextEID(t) == t.World.nextEntityID + 1

NewEntity(t) ==
    [t EXCEPT !.World = [nextEntityID |-> NextEID(t),
                         entities |-> @.entities \cup {NextEID(t)}]]

\* World.RemoveEntity: the entity and every component it carries are dropped.
RemoveEntity(t, e) ==
    [t EXCEPT
        !.World.entities = @ \ {e},
        !.Components = [File |-> Del(@.File, e),
                        FontTable |-> Del(@.FontTable, e),
                        Sprite |-> Del(@.Sprite, e),
                        BitmapFont |-> Del(@.BitmapFont, e),
                        Label |-> Del(@.Label, e),
                        Button |-> Del(@.Button, e),
                        Checkbox |-> Del(@.Checkbox, e),
                        Transform |-> @.Transform \ {e},
                        Interactive |-> @.Interactive \ {e},
                        Texture |-> Del(@.Texture, e),
                        Ready |-> @.Ready \ {e},
                        SceneGraphNode |-> Del(@.SceneGraphNode, e)]]

\* Components.Ready.Add, with the call counted in the history.
ReadyAdd(t, e) ==
    [t EXCEPT !.Components.Ready = @ \cup {e},
              !.hist.readyAdds = Put(@, e, IF Has(@, e) THEN @[e] + 1 ELSE 1)]

\* ComponentFactory.Add returns the component the entity already has, if any.
Add(store, e, fresh) == IF Has(store, e) THEN store ELSE Put(store, e, fresh)

\* ---------------------------------------------------------- SpriteFactory

\* SpriteFactory.Sprite / SegmentedSprite: a new entity is returned at once and
\* its Sprite, Texture and Ready components arrive later, from the sprite
\* factory's own pipeline (SpriteLoaded, SpriteRendered below).
SegmentedSprite(t, x, y, imgPath, palPath, xseg, yseg, frame) ==
    LET e == NextEID(t)
        t1 == NewEntity(t)
    IN  [t |-> [t1 EXCEPT !.spriteLoadQueue =
                    Put(@, e, [SpritePath |-> imgPath, PalettePath |-> palPath])],
         eid |-> e]

Sprite(t, x, y, imgPath, palPath) ==
    SegmentedSprite(t, x, y, imgPath, palPath, 1, 1, 0)

\* ------------------------------------------------------------- d2cache

\* Cache.Retrieve: the value stored under the key, 0 when there is none.
Retrieve(cache, key) == IF Has(cache.lookup, key) THEN cache.lookup[key] ELSE 0

\* Cache.Insert: an insert that does not fit the budget is rejected.
Insert(cache, key, value, weight) ==
    IF cache.weight + weight > fontCacheBudget
    THEN [cache |-> cache, err |-> "budget"]
    ELSE [cache |-> [lookup |-> Put(cache.lookup, key, value),
                     weight |-> cache.weight + weight],
          err |-> Nil]

\* ------------------------------------------------------------- d2button

ButtonStatePressed == 1
ButtonStateToggled == 2
ButtonStatePressedToggled == 3

\* A button type is modelled by what its layout says about it.
ButtonTypes ==
    [hasFont : BOOLEAN, HasImage : BOOLEAN, AllowFrameChange : BOOLEAN,
     DisabledFrame : {isNotSegmented, 4}]

GetLayout(btnType) ==
    [SpritePath |-> "btn", PalettePath |-> "units",
     FontPath |-> IF btnType.hasFont THEN "font16" ELSE "",
     XSegments |-> 1, YSegments |-> 1, BaseFrame |-> 0,
     HasImage |-> btnType.HasImage,
     AllowFrameChange |-> btnType.AllowFrameChange,
     DisabledFrame |-> btnType.DisabledFrame]

\* The layout of a Button component no Button() call has filled in.
ZeroLayout ==
    [SpritePath |-> "", PalettePath |-> "", FontPath |-> "",
     XSegments |-> 0, YSegments |-> 0, BaseFrame |-> 0,
     HasImage |-> FALSE, AllowFrameChange |-> FALSE, DisabledFrame |-> 0]

PaletteUnits == "units"

\* ------------------------------------------------------- creation: Label

Label(t, text, font, palettePath) ==
    LET tablePath == font \o ".tbl"
        spritePath == font \o ".dc6"
        labelEID == NextEID(t)
        t1 == NewEntity(t)
        tableEID == NextEID(t1)
        t2 == NewEntity(t1)
        t3 == [t2 EXCEPT !.Components.File = Put(@, tableEID, [Path |-> tablePath])]
        s == Sprite(t3, 0, 0, spritePath, palettePath)
        t4 == [s.t EXCEPT
                 !.labelLoadQueue = Put(@, labelEID, [table |-> tableEID, sprite |-> s.eid]),
                 !.Components.Label =
                     Add(@, labelEID, [Text |-> text, Font |-> 0, dirty |-> TRUE]),
                 !.hist.created = Put(@, labelEID, "label"),
                 !.hist.request = Put(@, labelEID, [font |-> font, palette |-> palettePath])]
    IN  [t |-> t4, eid |-> labelEID]

\* ------------------------------------------------------ the label pipeline

\* Mutant: the palette is left out of the key.
fontCacheKey_noPalette(tp, sp, pp) == tp \o "::" \o sp

fontCacheKey(tp, sp, pp) == tp \o "::" \o sp \o "::" \o pp

\* d2bitmapfont.New allocates a font object; a font object is identified by its
\* place in hist.built, which keeps the key it was built for.
createBitmapFont(t, entry) ==
    LET C == t.Components
        tableFound == Has(C.FontTable, entry.table)
        spriteFound == Has(C.Sprite, entry.sprite)
    IN  IF ~(tableFound /\ spriteFound)
           \/ C.Sprite[entry.sprite].Sprite = Nil
           \/ C.FontTable[entry.table].Data = Nil
        THEN [t |-> t, bmf |-> 0]
        ELSE [t |-> [t EXCEPT !.hist.built =
                        Append(@, fontCacheKey(C.File[entry.table].Path,
                                               C.Sprite[entry.sprite].SpritePath,
                                               C.Sprite[entry.sprite].PalettePath))],
              bmf |-> Len(t.hist.built) + 1]

\* History: a label is given its BitmapFont; hist.unloaded keeps the labels whose
\* glyph table had no FontTable, or whose sprite entity no Sprite, at that time.
Attached(t, labelEID, entry) ==
    [t EXCEPT !.hist.unloaded =
        IF /\ Has(t.Components.FontTable, entry.table)
           /\ Has(t.Components.Sprite, entry.sprite)
        THEN @ ELSE @ \cup {labelEID}]

\* History: a label is marked Ready; hist.early keeps the labels whose glyph
\* table or sprite entity did not carry Ready at that time.
Marked(t, labelEID, entry) ==
    [t EXCEPT !.hist.early =
        IF /\ entry.table \in t.Components.Ready
           /\ entry.sprite \in t.Components.Ready
        THEN @ ELSE @ \cup {labelEID}]

\* Mutant: the cache is never found to hold the key.
cached_miss(t, cacheKey) == 0

\* iface, found := t.bitmapFontCache.Retrieve(cacheKey)
cached(t, cacheKey) == Retrieve(t.bitmapFontCache, cacheKey)

\* Mutant: the new font is not put into the cache.
cacheFont_dropped(t, cacheKey, bmf) == t

\* Mutant: after a rejected insert the waiting labels are given up.
cacheFont_giveUp(t, cacheKey, bmf) ==
    LET ins == Insert(t.bitmapFontCache, cacheKey, bmf, 1)
    IN  IF ins.err # Nil
        THEN [t EXCEPT !.labelLoadQueue = EmptyMap,
                       !.hist.warnings = Append(@, cacheKey)]
        ELSE [t EXCEPT !.bitmapFontCache = ins.cache]

\* The new font is inserted with unit cost; a rejected insert is logged as a
\* warning and nothing else (hist.warnings keeps the keys of the warnings).
cacheFont(t, cacheKey, bmf) ==
    LET ins == Insert(t.bitmapFontCache, cacheKey, bmf, 1)
    IN  [t EXCEPT !.bitmapFontCache = ins.cache,
                  !.hist.warnings = IF ins.err # Nil THEN Append(@, cacheKey) ELSE @]

\* Mutant: one loaded component is taken to be enough.
componentsLoaded_either(tableFound, spriteFound) == tableFound \/ spriteFound

\* The guard of addBitmapFontForLabel on the two prerequisite components.
componentsLoaded(tableFound, spriteFound) == tableFound /\ spriteFound

addBitmapFontForLabel(t, labelEID) ==
    IF ~Has(t.labelLoadQueue, labelEID) THEN t ELSE
    LET entry == t.labelLoadQueue[labelEID]
        C == t.Components
        tableFound == Has(C.FontTable, entry.table)
        spriteFound == Has(C.Sprite, entry.sprite)
    IN
    IF ~componentsLoaded(tableFound, spriteFound) THEN t ELSE
    IF ~Has(C.File, entry.table) THEN t ELSE
    IF ~Has(C.Sprite, entry.sprite) THEN t ELSE
    LET cacheKey == fontCacheKey(C.File[entry.table].Path,
                                 C.Sprite[entry.sprite].SpritePath,
                                 C.Sprite[entry.sprite].PalettePath)
        iface == cached(t, cacheKey)
    IN
    IF iface # 0
    THEN \* cache hit: the component is added and the label is finished at once
         LET t0 == Marked(Attached(t, labelEID, entry), labelEID, entry)
             t1 == [t0 EXCEPT !.Components.BitmapFont = Put(@, labelEID, iface)]
             t2 == ReadyAdd(t1, labelEID)
         IN  [t2 EXCEPT !.labelLoadQueue = Del(@, labelEID)]
    ELSE
    LET made == createBitmapFont(t, entry) IN
    IF made.bmf = 0 THEN t ELSE
    LET t1 == cacheFont(Attached(made.t, labelEID, entry), cacheKey, made.bmf)
    IN  [t1 EXCEPT !.Components.BitmapFont = Put(@, labelEID, made.bmf)]

\* Mutant: the finished label stays in the queue.
processLabel_again(t, labelEID) ==
    IF ~Has(t.Components.BitmapFont, labelEID)
    THEN addBitmapFontForLabel(t, labelEID)
    ELSE
    LET entry == t.labelLoadQueue[labelEID]
        t1 == [t EXCEPT !.Components.Label[labelEID].Font =
                            t.Components.BitmapFont[labelEID]]
    IN  ReadyAdd(RemoveEntity(t1, entry.table), labelEID)

processLabel(t, labelEID) ==
    IF ~Has(t.Components.BitmapFont, labelEID)
    THEN addBitmapFontForLabel(t, labelEID)
    ELSE
    LET bmf == t.Components.BitmapFont[labelEID]
        entry == t.labelLoadQueue[labelEID]
        \* label, found := Label.Get(labelEID); if !found { label = Label.Add }
        t1 == [Marked(t, labelEID, entry) EXCEPT !.Components.Label =
                   Add(@, labelEID, [Text |-> "", Font |-> 0, dirty |-> FALSE])]
        t2 == [t1 EXCEPT !.Components.Label[labelEID].Font = bmf]
        t3 == RemoveEntity(t2, entry.table)
        t4 == ReadyAdd(t3, labelEID)
    IN  [t4 EXCEPT !.labelLoadQueue = Del(@, labelEID)]

updateLabel(t, labelEID) ==
    LET C == t.Components IN
    IF ~Has(C.Label, labelEID) THEN t ELSE
    IF ~Has(C.BitmapFont, labelEID) THEN t ELSE
    LET t1 == [t EXCEPT !.Components.Label[labelEID].Font = C.BitmapFont[labelEID]]
    IN  IF ~C.Label[labelEID].dirty THEN t1 ELSE
        \* texture.Texture = renderer.NewSurface(...); label.Render(texture.Texture)
        [t1 EXCEPT !.Components.Texture = Put(@, labelEID, "surface"),
                   !.Components.Label[labelEID].dirty = FALSE]

\* ----------------------------------------------------- the button pipeline

NoStates == [Normal |-> 0, Pressed |-> 0, Toggled |-> 0, PressedToggled |-> 0,
             Disabled |-> 0]

\* Mutant: the temporary label is not marked as ready.
placeholderLabel_notReady(t) == [t |-> NewEntity(t), eid |-> NextEID(t)]

\* Mutant: the temporary label of a waiting button is used again, if there is one.
placeholderLabel_shared(t) ==
    LET S == {e \in {t.buttonLoadQueue[b].label : b \in DOMAIN t.buttonLoadQueue} :
                 e \in t.Components.Ready /\ ~Has(t.Components.Label, e)}
    IN  IF S # {} THEN [t |-> t, eid |-> CHOOSE e \in S : TRUE]
        ELSE [t |-> ReadyAdd(NewEntity(t), NextEID(t)), eid |-> NextEID(t)]

\* labelEID = t.NewEntity(); t.Components.Ready.Add(labelEID): a temporary
\* label, marked as ready.
placeholderLabel(t) == [t |-> ReadyAdd(NewEntity(t), NextEID(t)), eid |-> NextEID(t)]

Button(t, x, y, btnType, text) ==
    LET buttonEID == NextEID(t)
        t1 == NewEntity(t)
        layout == GetLayout(btnType)
        t2 == [t1 EXCEPT
                 !.Components.Button =
                     Add(@, buttonEID, [Layout |-> layout, Sprite |-> Nil,
                                        States |-> NoStates, Surfaces |-> FALSE]),
                 !.Components.Transform = @ \cup {buttonEID},
                 !.hist.created = Put(@, buttonEID, "button")]
        lbl == IF layout.FontPath # "" /\ layout.PalettePath # ""
               THEN Label(t2, text, layout.FontPath, PaletteUnits)
               ELSE placeholderLabel(t2)
        spr == SegmentedSprite(lbl.t, 0, 0, layout.SpritePath, layout.PalettePath,
                               layout.XSegments, layout.YSegments, layout.BaseFrame)
    IN  [t |-> [spr.t EXCEPT !.buttonLoadQueue =
                    Put(@, buttonEID, [label |-> lbl.eid, sprite |-> spr.eid])],
         eid |-> buttonEID]

\* Mutant: the finished button stays in the queue.
renderButtonStates_keepsEntry(t, buttonEID) ==
    LET button == t.Components.Button[buttonEID]
    IN  IF ~(\A e \in {button.States.Normal, button.States.Pressed,
                       button.States.Toggled, button.States.PressedToggled,
                       button.States.Disabled} : e \in t.Components.Ready)
        THEN t
        ELSE ReadyAdd(t, buttonEID)

\* Mutant: only the Normal state sprite is asked for Ready.
renderButtonStates_normalOnly(t, buttonEID) ==
    LET button == t.Components.Button[buttonEID]
    IN  IF button.States.Normal \notin t.Components.Ready THEN t
        ELSE [ReadyAdd(t, buttonEID) EXCEPT !.buttonLoadQueue = Del(@, buttonEID)]

renderButtonStates(t, buttonEID) ==
    LET button == t.Components.Button[buttonEID]
        R == t.Components.Ready
        ready == /\ button.States.Normal \in R
                 /\ button.States.Pressed \in R
                 /\ button.States.Toggled \in R
                 /\ button.States.PressedToggled \in R
                 /\ button.States.Disabled \in R
    IN  IF ~ready THEN t
        ELSE [ReadyAdd(t, buttonEID) EXCEPT !.buttonLoadQueue = Del(@, buttonEID)]

\* Mutant: the sentinel is not looked at.
hasDisabledFrame_always(L) == TRUE

\* if button.Layout.DisabledFrame != isNotSegmented
hasDisabledFrame(L) == L.DisabledFrame # isNotSegmented

\* Mutant: an image is taken to be enough for states of their own.
hasOtherStates_imageOnly(L) == L.HasImage

\* if button.Layout.HasImage && button.Layout.AllowFrameChange
hasOtherStates(L) == L.HasImage /\ L.AllowFrameChange

\* The state sprites a button is given by processButtonStates.
buildButtonStates(t, buttonEID) ==
    LET L == t.Components.Button[buttonEID].Layout
        baseFrame == L.BaseFrame
        seg(u, frame) == SegmentedSprite(u, 0, 0, L.SpritePath, L.PalettePath,
                                         L.XSegments, L.YSegments, frame)
        n == seg(t, baseFrame)
        byDefault == [Normal |-> n.eid, Pressed |-> n.eid, Toggled |-> n.eid,
                      PressedToggled |-> n.eid, Disabled |-> n.eid]
    IN  IF ~hasOtherStates(L)
        THEN [n.t EXCEPT !.Components.Button[buttonEID].States = byDefault]
        ELSE
        LET p == seg(n.t, baseFrame + ButtonStatePressed)
            g == seg(p.t, baseFrame + ButtonStateToggled)
            pt == seg(g.t, baseFrame + ButtonStatePressedToggled)
            others == [byDefault EXCEPT !.Pressed = p.eid, !.Toggled = g.eid,
                                        !.PressedToggled = pt.eid]
        IN  IF hasDisabledFrame(L)
            THEN LET d == seg(pt.t, L.DisabledFrame)
                 IN  [d.t EXCEPT !.Components.Button[buttonEID].States =
                                      [others EXCEPT !.Disabled = d.eid]]
            ELSE [pt.t EXCEPT !.Components.Button[buttonEID].States = others]

\* Mutant: the Normal state is not looked at.
hasBeenProcessed_never(button) == FALSE

\* hasBeenProcessed := button.States.Normal > 0
hasBeenProcessed(button) == button.States.Normal > 0

processButtonStates(t, buttonEID) ==
    LET button == t.Components.Button[buttonEID]
    IN  IF hasBeenProcessed(button)
        THEN renderButtonStates(t, buttonEID)
        ELSE buildButtonStates(t, buttonEID)

\* Mutant: one ready prerequisite is taken to be enough.
prerequisitesReady_either(labelReady, spriteReady) == labelReady \/ spriteReady

\* if !(labelReady && spriteReady) { return }
prerequisitesReady(labelReady, spriteReady) == labelReady /\ spriteReady

processButton(t, buttonEID) ==
    IF ~Has(t.buttonLoadQueue, buttonEID) THEN t ELSE
    LET entry == t.buttonLoadQueue[buttonEID]
        labelEID == entry.label
        spriteEID == entry.sprite
        labelReady == labelEID \in t.Components.Ready
        spriteReady == spriteEID \in t.Components.Ready
    IN
    IF ~prerequisitesReady(labelReady, spriteReady) THEN t ELSE
    LET t1 == [t EXCEPT
                 !.Components.Button =
                     Add(@, buttonEID, [Layout |-> ZeroLayout, Sprite |-> Nil,
                                        States |-> NoStates, Surfaces |-> FALSE]),
                 !.Components.SceneGraphNode = Add(@, buttonEID, 0)]
        t2 == IF Has(t1.Components.Sprite, spriteEID)
              THEN [t1 EXCEPT
                      !.Components.Button[buttonEID].Sprite =
                          t1.Components.Sprite[spriteEID].Sprite,
                      !.Components.SceneGraphNode = Put(@, spriteEID, buttonEID)]
              ELSE t1
        t3 == IF Has(t2.Components.Label, labelEID)
              THEN [t2 EXCEPT !.Components.SceneGraphNode = Put(@, labelEID, buttonEID)]
              ELSE t2
    IN  processButtonStates(t3, buttonEID)

updateButton(t, buttonEID) ==
    LET C == t.Components IN
    IF ~Has(C.Button, buttonEID) THEN t ELSE
    LET S == C.Button[buttonEID].States
        found == /\ Has(C.Texture, S.Normal) /\ Has(C.Texture, S.Pressed)
                 /\ Has(C.Texture, S.Toggled) /\ Has(C.Texture, S.PressedToggled)
                 /\ Has(C.Texture, S.Disabled)
    IN  IF ~found THEN t
        ELSE [t EXCEPT !.Components.Button[buttonEID].Surfaces = TRUE,
                       !.Components.Texture = Put(@, buttonEID, "surface")]

\* --------------------------------------------------- the checkbox pipeline

Checkbox(t, x, y, checkedState, enabled) ==
    LET checkboxEID == NextEID(t)
        t1 == NewEntity(t)
        t2 == [t1 EXCEPT
                 !.Components.Checkbox =
                     Add(@, checkboxEID, [pressed |-> checkedState, enabled |-> enabled,
                                          Sprite |-> Nil]),
                 !.Components.Transform = @ \cup {checkboxEID},
                 !.hist.created = Put(@, checkboxEID, "checkbox")]
        spr == SegmentedSprite(t2, x, y, "checkbox", "fechar", 1, 1, 0)
    IN  [t |-> [spr.t EXCEPT !.checkboxLoadQueue =
                    Put(@, checkboxEID, [sprite |-> spr.eid])],
         eid |-> checkboxEID]

\* Mutant: the texture slot is left out.
processCheckbox_noTexture(t, checkboxEID) ==
    IF ~Has(t.checkboxLoadQueue, checkboxEID) THEN t ELSE
    LET spriteEID == t.checkboxLoadQueue[checkboxEID].sprite IN
    IF spriteEID \notin t.Components.Ready THEN t ELSE
    LET t1 == [t EXCEPT !.Components.Interactive = @ \cup {checkboxEID},
                        !.Components.SceneGraphNode = Add(@, checkboxEID, 0)]
    IN  [ReadyAdd(t1, checkboxEID) EXCEPT !.checkboxLoadQueue = Del(@, checkboxEID)]

processCheckbox(t, checkboxEID) ==
    IF ~Has(t.checkboxLoadQueue, checkboxEID) THEN t ELSE
    LET spriteEID == t.checkboxLoadQueue[checkboxEID].sprite IN
    IF spriteEID \notin t.Components.Ready THEN t ELSE
    LET t1 == [t EXCEPT
                 !.Components.Checkbox =
                     Add(@, checkboxEID, [pressed |-> FALSE, enabled |-> FALSE,
                                          Sprite |-> Nil]),
                 !.Components.SceneGraphNode = Add(@, checkboxEID, 0)]
        t2 == IF Has(t1.Components.Sprite, spriteEID)
              THEN [t1 EXCEPT
                      !.Components.Checkbox[checkboxEID].Sprite =
                          t1.Components.Sprite[spriteEID].Sprite,
                      !.Components.SceneGraphNode = Put(@, spriteEID, checkboxEID)]
              ELSE t1
        t3 == [t2 EXCEPT !.Components.Interactive = @ \cup {checkboxEID},
                         !.Components.Texture = Add(@, checkboxEID, Nil)]
        t4 == ReadyAdd(t3, checkboxEID)
    IN  [t4 EXCEPT !.checkboxLoadQueue = Del(@, checkboxEID)]

updateCheckbox(t, checkboxEID) ==
    IF ~Has(t.Components.Checkbox, checkboxEID) THEN t
    ELSE [t EXCEPT !.Components.Texture = Put(@, checkboxEID, "surface")]

\* ------------------------------------------------------------ boot, Update

\* Mutant: the renderer is not asked for.
boot_anyRenderSystem(t) ==
    IF t.RenderSystem.isNil THEN t ELSE [t EXCEPT !.state = SceneStateBooted]

boot(t) ==
    IF t.RenderSystem.isNil THEN t
    ELSE IF t.RenderSystem.renderer = Nil THEN t
    ELSE [t EXCEPT !.state = SceneStateBooted]

\* The six range loops of Update, in the order of the code.
Phases == <<"buttons", "checkboxes", "labels",
            "updButtons", "updCheckboxes", "updLabels">>

\* What a loop ranges over: a load queue's keys, or a subscription's entities
\* (the entities that carry the widget component and Ready).
Items(p, t) ==
    CASE p = "buttons" -> DOMAIN t.buttonLoadQueue
      [] p = "checkboxes" -> DOMAIN t.checkboxLoadQueue
      [] p = "labels" -> DOMAIN t.labelLoadQueue
      [] p = "updButtons" -> (DOMAIN t.Components.Button) \cap t.Components.Ready
      [] p = "updCheckboxes" -> (DOMAIN t.Components.Checkbox) \cap t.Components.Ready
      [] p = "updLabels" -> (DOMAIN t.Components.Label) \cap t.Components.Ready

\* The body of each loop.
Unit(p, t, e) ==
    CASE p = "buttons" -> processButton(t, e)
      [] p = "checkboxes" -> processCheckbox(t, e)
      [] p = "labels" -> processLabel(t, e)
      [] p = "updButtons" -> updateButton(t, e)
      [] p = "updCheckboxes" -> updateCheckbox(t, e)
      [] p = "updLabels" -> updateLabel(t, e)

\* The first loop from the i-th on that has something to range over (0: none).
RECURSIVE LoopFrom(_, _)
LoopFrom(i, t) ==
    IF i > Len(Phases) THEN 0
    ELSE IF Items(Phases[i], t) # {} THEN i
    ELSE LoopFrom(i + 1, t)

PhaseIndex(p) == CHOOSE i \in 1..Len(Phases) : Phases[i] = p

\* Mutant: the loops never look at the clock.
timeIsUp_never(since) == FALSE

\* if time.Since(start) > maxTimePerUpdate { return }
timeIsUp(since) == since > maxTimePerUpdate

\* Update is called: boot when not booted, else the first loop is entered.
UpdateBegin ==
    /\ UNCHANGED <<loggerVars, sceneVars>>
    /\ pc = "idle"
    /\ elapsed' = 0
    /\ IF state # SceneStateBooted
       THEN /\ Commit(boot(Self))
            /\ UNCHANGED <<pc, todo>>
       ELSE /\ Commit(Self)
            /\ LET i == LoopFrom(1, Self)
               IN  IF i = 0 THEN UNCHANGED <<pc, todo>>
                   ELSE pc' = Phases[i] /\ todo' = Items(Phases[i], Self)

\* One iteration of the running loop: the time check passes and one unit of
\* work runs, at a cost of c clock ticks; a range over a map visits the keys in
\* any order. hist.late records a unit started after the ceiling was exceeded.
UpdateStep ==
    /\ UNCHANGED <<loggerVars, sceneVars>>
    /\ pc # "idle"
    /\ ~timeIsUp(elapsed)
    /\ \E e \in todo, c \in 0..MaxUnitCost :
         LET t0 == [Self EXCEPT !.hist.late = @ \/ (elapsed > maxTimePerUpdate)]
             t == Unit(pc, t0, e)
             i == LoopFrom(PhaseIndex(pc) + 1, t)
         IN  /\ Commit(t)
             /\ IF todo \ {e} # {}
                THEN pc' = pc /\ todo' = todo \ {e} /\ elapsed' = elapsed + c
                ELSE IF i # 0
                THEN pc' = Phases[i] /\ todo' = Items(Phases[i], t)
                     /\ elapsed' = elapsed + c
                ELSE pc' = "idle" /\ todo' = {} /\ elapsed' = 0

\* The time check fails: Update returns and leaves the rest to the next call.
UpdateReturn ==
    /\ UNCHANGED <<loggerVars, sceneVars>>
    /\ pc # "idle"
    /\ timeIsUp(elapsed)
    /\ pc' = "idle" /\ todo' = {} /\ elapsed' = 0
    /\ Commit(Self)

\* ------------------------------------------------- the callers of the factory

Fonts == {"font16", "fontexocet10"}

\* State sprites processButtonStates will still create for the queued buttons.
StateSprites(layout) ==
    IF layout.HasImage /\ layout.AllowFrameChange
    THEN IF layout.DisabledFrame # isNotSegmented THEN 5 ELSE 4
    ELSE 1

RECURSIVE Pending(_, _)
Pending(t, S) ==
    IF S = {} THEN 0
    ELSE LET b == CHOOSE x \in S : TRUE
         IN  (IF t.Components.Button[b].States.Normal = 0
              THEN StateSprites(t.Components.Button[b].Layout) ELSE 0)
             + Pending(t, S \ {b})

\* The world has n entities left to hand out.
Room(n) ==
    World.nextEntityID + Pending(Self, DOMAIN buttonLoadQueue) + n <= MaxEntities

CallLabel ==
    /\ UNCHANGED <<loggerVars, sceneVars>>
    /\ pc = "idle"
    /\ Room(3)
    /\ \E font \in Fonts : Commit(Label(Self, "Test", font, PaletteUnits).t)
    /\ UNCHANGED <<pc, todo, elapsed>>

CallButton ==
    /\ UNCHANGED <<loggerVars, sceneVars>>
    /\ pc = "idle"
    /\ \E btnType \in ButtonTypes :
         /\ Room((IF btnType.hasFont THEN 5 ELSE 3) + StateSprites(GetLayout(btnType)))
         /\ Commit(Button(Self, 100, 100, btnType, "Test").t)
    /\ UNCHANGED <<pc, todo, elapsed>>

CallCheckbox ==
    /\ UNCHANGED <<loggerVars, sceneVars>>
    /\ pc = "idle"
    /\ Room(2)
    /\ \E checkedState \in {TRUE} : Commit(Checkbox(Self, 0, 0, checkedState, TRUE).t)
    /\ UNCHANGED <<pc, todo, elapsed>>

\* ------------------------------------------- the other systems of the world

\* The asset loader gives the file entity of a glyph table its decoded
\* FontTable, ...
FontTableLoaded ==
    /\ UNCHANGED <<loggerVars, sceneVars>>
    /\ pc = "idle"
    /\ \E e \in (DOMAIN Components.File) \ DOMAIN Components.FontTable :
         Components' = [Components EXCEPT !.FontTable = Put(@, e, [Data |-> "glyphs"])]
    /\ UNCHANGED <<World, buttonLoadQueue, checkboxLoadQueue, labelLoadQueue, state,
                   RenderSystem, bitmapFontCache, spriteLoadQueue, pc, todo,
                   elapsed, hist>>

\* ... and marks the entity Ready.
FileReady ==
    /\ UNCHANGED <<loggerVars, sceneVars>>
    /\ pc = "idle"
    /\ \E e \in (DOMAIN Components.FontTable) \ Components.Ready :
         /\ Components.FontTable[e].Data # Nil
         /\ Components' = [Components EXCEPT !.Ready = @ \cup {e}]
    /\ UNCHANGED <<World, buttonLoadQueue, checkboxLoadQueue, labelLoadQueue, state,
                   RenderSystem, bitmapFontCache, spriteLoadQueue, pc, todo,
                   elapsed, hist>>

\* The sprite factory gives a pending sprite entity its decoded Sprite, ...
SpriteLoaded ==
    /\ UNCHANGED <<loggerVars, sceneVars>>
    /\ pc = "idle"
    /\ \E e \in (DOMAIN spriteLoadQueue) \ DOMAIN Components.Sprite :
         Components' = [Components EXCEPT !.Sprite =
             Put(@, e, [Sprite |-> "dc6",
                        SpritePath |-> spriteLoadQueue[e].SpritePath,
                        PalettePath |-> spriteLoadQueue[e].PalettePath])]
    /\ UNCHANGED <<World, buttonLoadQueue, checkboxLoadQueue, labelLoadQueue, state,
                   RenderSystem, bitmapFontCache, spriteLoadQueue, pc, todo,
                   elapsed, hist>>

\* ... and, once its texture is rendered, marks the entity Ready.
SpriteRendered ==
    /\ UNCHANGED <<loggerVars, sceneVars>>
    /\ pc = "idle"
    /\ \E e \in (DOMAIN spriteLoadQueue) \cap DOMAIN Components.Sprite :
         /\ Components.Sprite[e].Sprite # Nil
         /\ Components' = [Components EXCEPT !.Texture = Put(@, e, "surface"),
                                             !.Ready = @ \cup {e}]
         /\ spriteLoadQueue' = Del(spriteLoadQueue, e)
    /\ UNCHANGED <<World, buttonLoadQueue, checkboxLoadQueue, labelLoadQueue, state,
                   RenderSystem, bitmapFontCache, pc, todo, elapsed, hist>>

\* The render system is injected into the factory, and later gets its renderer.
RenderSystemInjected ==
    /\ UNCHANGED <<loggerVars, sceneVars>>
    /\ pc = "idle"
    /\ RenderSystem.isNil
    /\ RenderSystem' = [isNil |-> FALSE, renderer |-> Nil]
    /\ UNCHANGED <<World, Components, buttonLoadQueue, checkboxLoadQueue,
                   labelLoadQueue, state, bitmapFontCache, spriteLoadQueue, pc, todo,
                   elapsed, hist>>

RendererBound ==
    /\ UNCHANGED <<loggerVars, sceneVars>>
    /\ pc = "idle"
    /\ ~RenderSystem.isNil
    /\ RenderSystem.renderer = Nil
    /\ RenderSystem' = [isNil |-> FALSE, renderer |-> "renderer"]
    /\ UNCHANGED <<World, Components, buttonLoadQueue, checkboxLoadQueue,
                   labelLoadQueue, state, bitmapFontCache, spriteLoadQueue, pc, todo,
                   elapsed, hist>>

\* ------------------------------------------------------- the specification

\* NewUIWidgetFactory: empty queues, a fresh cache, state Uninitialized. The
\* cache's budget may already be used up by fonts cached under other keys.
Init ==
    /\ World = [nextEntityID |-> 0, entities |-> {}]
    /\ Components = [File |-> EmptyMap, FontTable |-> EmptyMap, Sprite |-> EmptyMap,
                     BitmapFont |-> EmptyMap, Label |-> EmptyMap, Button |-> EmptyMap,
                     Checkbox |-> EmptyMap, Transform |-> {}, Interactive |-> {},
                     Texture |-> EmptyMap, Ready |-> {}, SceneGraphNode |-> EmptyMap]
    /\ buttonLoadQueue = EmptyMap
    /\ checkboxLoadQueue = EmptyMap
    /\ labelLoadQueue = EmptyMap
    /\ state = SceneStateUninitialized
    /\ RenderSystem = [isNil |-> TRUE, renderer |-> Nil]
    /\ \E w \in {0, fontCacheBudget} : bitmapFontCache = [lookup |-> EmptyMap, weight |-> w]
    /\ spriteLoadQueue = EmptyMap
    /\ pc = "idle"
    /\ todo = {}
    /\ elapsed = 0
    /\ hist = [readyAdds |-> EmptyMap, built |-> <<>>, created |-> EmptyMap,
               request |-> EmptyMap, unloaded |-> {}, early |-> {},
               warnings |-> <<>>,
               late |-> FALSE]
    /\ NewLogger
    /\ NewButtonTestScene

Next ==
    \/ CallLabel
    \/ CallButton
    \/ CallCheckbox
    \/ FontTableLoaded
    \/ FileReady
    \/ SpriteLoaded
    \/ SpriteRendered
    \/ RenderSystemInjected
    \/ RendererBound
    \/ UpdateBegin
    \/ UpdateStep
    \/ UpdateReturn

Spec == Init /\ [][Next]_vars

\* The world runs every system once per frame: an Update that has begun runs to
\* its return, Update is called again and again, and between two Updates the
\* asset loader, the sprite factory and the render system get their turn, so
\* whatever they have left to load is loaded in the end.
Fairness ==
    /\ WF_vars(UpdateBegin)
    /\ WF_vars(UpdateStep)
    /\ WF_vars(UpdateReturn)
    /\ SF_vars(FontTableLoaded)
    /\ SF_vars(FileReady)
    /\ SF_vars(SpriteLoaded)
    /\ SF_vars(SpriteRendered)
    /\ SF_vars(RenderSystemInjected)
    /\ SF_vars(RendererBound)

\* The factory is constructed in a world that has handed out entities before.
InitInUse ==
    /\ World = [nextEntityID |-> EntitiesInUse, entities |-> 1..EntitiesInUse]
    /\ Components = [File |-> EmptyMap, FontTable |-> EmptyMap, Sprite |-> EmptyMap,
                     BitmapFont |-> EmptyMap, Label |-> EmptyMap, Button |-> EmptyMap,
                     Checkbox |-> EmptyMap, Transform |-> {}, Interactive |-> {},
                     Texture |-> EmptyMap, Ready |-> {}, SceneGraphNode |-> EmptyMap]
    /\ buttonLoadQueue = EmptyMap
    /\ checkboxLoadQueue = EmptyMap
    /\ labelLoadQueue = EmptyMap
    /\ state = SceneStateUninitialized
    /\ RenderSystem = [isNil |-> TRUE, renderer |-> Nil]
    /\ bitmapFontCache = [lookup |-> EmptyMap, weight |-> 0]
    /\ spriteLoadQueue = EmptyMap
    /\ pc = "idle"
    /\ todo = {}
    /\ elapsed = 0
    /\ hist = [readyAdds |-> EmptyMap, built |-> <<>>, created |-> EmptyMap,
               request |-> EmptyMap, unloaded |-> {}, early |-> {},
               warnings |-> <<>>, late |-> FALSE]
    /\ NewLogger
    /\ NewButtonTestScene

FairSpec == InitInUse /\ [][Next]_vars /\ Fairness

\* A scene that creates buttons and nothing else, as ButtonTestScene does; its
\* world has room for two buttons, or for one with five state sprites.
SceneRoom(n) ==
    World.nextEntityID + Pending(Self, DOMAIN buttonLoadQueue) + n <= MaxSceneEntities

SceneButton ==
    /\ UNCHANGED <<loggerVars, sceneVars>>
    /\ pc = "idle"
    /\ \E btnType \in ButtonTypes :
         /\ SceneRoom((IF btnType.hasFont THEN 5 ELSE 3)
                        + StateSprites(GetLayout(btnType)))
         /\ Commit(Button(Self, 100, 100, btnType, "Test").t)
    /\ UNCHANGED <<pc, todo, elapsed>>

ButtonNext ==
    \/ SceneButton
    \/ FontTableLoaded
    \/ FileReady
    \/ SpriteLoaded
    \/ SpriteRendered
    \/ RenderSystemInjected
    \/ RendererBound
    \/ UpdateBegin
    \/ UpdateStep
    \/ UpdateReturn

ButtonSpec == Init /\ [][ButtonNext]_vars

\* ---------------------------------------------------------- d2util.Logger

factoryVars == <<World, Components, buttonLoadQueue, checkboxLoadQueue,
                 labelLoadQueue, state, RenderSystem, bitmapFontCache,
                 spriteLoadQueue, pc, todo, elapsed, hist>>

\* go l.print(level, msg): a goroutine is started and the caller goes on. The
\* message is identified by the goroutine's place in call order.
go(level) ==
    /\ process = "running"
    /\ Len(goroutines) < MaxCalls
    /\ goroutines' = Append(goroutines, [level |-> level, at |-> "start"])
    /\ UNCHANGED <<Logger, Writer, factoryVars, sceneVars>>

Info == go(LogLevelInfo) /\ UNCHANGED process

Warning == go(LogLevelWarning) /\ UNCHANGED process

Error == go(LogLevelError) /\ UNCHANGED process

Debug == go(LogLevelDebug) /\ UNCHANGED process

\* Fatal: go l.print(LogLevelFatal, msg), and os.Exit(1) is the next statement.
Fatal == go(LogLevelFatal) /\ process' = "exiting"

\* Mutant: the exit waits until the goroutine of the fatal message is through.
osExit_afterWrite ==
    /\ process = "exiting"
    /\ goroutines[Len(goroutines)].at = "returned"
    /\ process' = "exited"
    /\ UNCHANGED <<Logger, Writer, goroutines, factoryVars, sceneVars>>

\* os.Exit(1): the process ends, and every goroutine with it.
osExit ==
    /\ process = "exiting"
    /\ process' = "exited"
    /\ UNCHANGED <<Logger, Writer, goroutines, factoryVars, sceneVars>>

\* Mutant: the mutex is taken whoever holds it.
mutexFree_always(l) == TRUE

\* l.mutex.Lock() goes through when nobody holds the mutex.
mutexFree(l) == l.mutex = 0

\* The levels the process asks SetLevel for.
Levels == {LogLevelNone, LogLevelError, LogLevelDebug, LogLevelUnspecified}

\* SetLevel, called by the process: under the mutex, Unspecified is Default.
SetLevel ==
    /\ process = "running"
    /\ mutexFree(Logger)
    /\ \E level \in Levels :
         Logger' = [Logger EXCEPT !.level = IF level = LogLevelUnspecified
                                            THEN LogLevelDefault ELSE level]
    /\ UNCHANGED <<Writer, goroutines, process, factoryVars, sceneVars>>

\* The goroutines that run while the process lives.
Alive == IF process = "exited" THEN {} ELSE 1..Len(goroutines)

\* print, l.mutex.Lock()
printLock ==
    \E g \in Alive :
        /\ goroutines[g].at = "start"
        /\ mutexFree(Logger)
        /\ Logger' = [Logger EXCEPT !.mutex = g]
        /\ goroutines' = [goroutines EXCEPT ![g].at = "locked"]
        /\ UNCHANGED <<Writer, process, factoryVars, sceneVars>>

\* if l.level < level { return }
filtered(l, level) == l.level < level

\* print, the level check: a filtered message returns, the deferred Unlock runs.
printFilter ==
    \E g \in Alive :
        /\ goroutines[g].at = "locked"
        /\ IF filtered(Logger, goroutines[g].level)
           THEN /\ goroutines' = [goroutines EXCEPT ![g].at = "returned"]
                /\ Logger' = [Logger EXCEPT !.mutex = 0]
           ELSE /\ goroutines' = [goroutines EXCEPT ![g].at = "format"]
                /\ UNCHANGED Logger
        /\ UNCHANGED <<Writer, process, factoryVars, sceneVars>>

\* print, l.Write(format(...)), return: the deferred Unlock runs.
printWrite ==
    \E g \in Alive :
        /\ goroutines[g].at = "format"
        /\ Writer' = Append(Writer, [msg |-> g, level |-> goroutines[g].level])
        /\ goroutines' = [goroutines EXCEPT ![g].at = "returned"]
        /\ Logger' = [Logger EXCEPT !.mutex = 0]
        /\ UNCHANGED <<process, factoryVars, sceneVars>>

LoggerNext ==
    \/ Info
    \/ Warning
    \/ Error
    \/ Debug
    \/ Fatal
    \/ osExit
    \/ SetLevel
    \/ printLock
    \/ printFilter
    \/ printWrite

\* The process with a new Logger; the widget factory has just been constructed.
LoggerInit == Init /\ bitmapFontCache.weight = 0

LoggerSpec == LoggerInit /\ [][LoggerNext]_vars

\* ------------------------------------------------------- ButtonTestScene

\* The receiver s of the scene's methods: its own fields, the BaseScene it
\* embeds, the positions it moves, and the widget factory behind s.Add.
SelfScene ==
    [t |-> Self, state |-> ButtonTestScene.state, BaseScene |-> BaseScene,
     Translation |-> Translation, hist |-> sceneHist]

CommitScene(s) ==
    /\ Commit(s.t)
    /\ ButtonTestScene' = [state |-> s.state]
    /\ BaseScene' = s.BaseScene
    /\ Translation' = s.Translation
    /\ sceneHist' = s.hist

\* s.Add.Button(100, 100, d2button.ButtonTypeBuy, "Test"); the layout of
\* ButtonTypeBuy is whatever d2button.GetLayout gives for it.
createButtons(s, btnType) ==
    [s EXCEPT !.t = Button(s.t, 100, 100, btnType, "Test").t,
              !.hist.createButtons = @ + 1]

\* Mutant: the scene state is left as it is.
sceneBoot_notBooted(s, btnType, booted) ==
    IF ~s.BaseScene.booted
    THEN [s EXCEPT !.BaseScene.booted = booted]
    ELSE createButtons(s, btnType)

\* ButtonTestScene.boot; BaseScene.boot() leaves the base scene booted or not.
sceneBoot(s, btnType, booted) ==
    IF ~s.BaseScene.booted
    THEN [s EXCEPT !.BaseScene.booted = booted]
    ELSE [createButtons(s, btnType) EXCEPT !.state = SceneStateBooted]

\* updateButtonPosition: trs.Translation.AddScalar(1), if there is a Transform.
updateButtonPosition(s, eid) ==
    IF eid \notin s.t.Components.Transform THEN s
    ELSE [s EXCEPT !.Translation =
             Put(@, eid, IF Has(@, eid) THEN @[eid] + 1 ELSE 1)]

\* for _, eid := range s.buttons.GetEntities() { s.updateButtonPosition(eid) }
RECURSIVE updatePositions(_, _)
updatePositions(s, S) ==
    IF S = {} THEN s
    ELSE LET eid == CHOOSE x \in S : TRUE
         IN  updatePositions(updateButtonPosition(s, eid), S \ {eid})

\* ButtonTestScene.Update, called by the world between two Updates of the
\* factory. sceneHist.updates counts the calls.
SceneUpdate ==
    /\ pc = "idle"
    /\ sceneHist.updates < MaxSceneUpdates
    /\ \E btnType \in ButtonTypes, booted \in BOOLEAN :
         LET s0 == [SelfScene EXCEPT !.hist.updates = @ + 1]
             s1 == IF s0.state = SceneStateUninitialized
                   THEN sceneBoot(s0, btnType, booted) ELSE s0
             buttons == (DOMAIN s1.t.Components.Button) \cap s1.t.Components.Ready
         IN  IF s0.BaseScene.paused THEN CommitScene(s0)
             ELSE IF s1.state # SceneStateBooted THEN CommitScene(s1)
             ELSE CommitScene(updatePositions(s1, buttons))
    /\ UNCHANGED <<pc, todo, elapsed, loggerVars>>

\* The scene is paused, and resumed, from outside.
ScenePaused ==
    /\ pc = "idle"
    /\ ~BaseScene.paused
    /\ BaseScene' = [BaseScene EXCEPT !.paused = TRUE]
    /\ UNCHANGED <<factoryVars, loggerVars, ButtonTestScene, Translation, sceneHist>>

SceneResumed ==
    /\ pc = "idle"
    /\ BaseScene.paused
    /\ BaseScene' = [BaseScene EXCEPT !.paused = FALSE]
    /\ UNCHANGED <<factoryVars, loggerVars, ButtonTestScene, Translation, sceneHist>>

SceneNext ==
    \/ SceneUpdate
    \/ ScenePaused
    \/ SceneResumed
    \/ FontTableLoaded
    \/ FileReady
    \/ SpriteLoaded
    \/ SpriteRendered
    \/ RenderSystemInjected
    \/ RendererBound
    \/ UpdateBegin
    \/ UpdateStep
    \/ UpdateReturn

\* The world with a new scene and a new widget factory.
SceneInit == Init /\ bitmapFontCache.weight = 0

SceneSpec == SceneInit /\ [][SceneNext]_vars

\* ------------------------------------------------------------- the claims

Labels == {e \in DOMAIN hist.created : hist.created[e] = "label"}
Buttons == {e \in DOMAIN hist.created : hist.created[e] = "button"}
Checkboxes == {e \in DOMAIN hist.created : hist.created[e] = "checkbox"}

StateRefs(B) ==
    LET S == Components.Button[B].States
    IN  {S.Normal, S.Pressed, S.Toggled, S.PressedToggled, S.Disabled}

\* C1, as stated: a label carries Ready only if its glyph-table entity and its
\* sprite entity both carried Ready at the moment the label was marked Ready.
C1_ReadyOnlyAfterPrerequisitesReady ==
    \A L \in Labels : L \in Components.Ready => L \notin hist.early

\* C1, amended: a label carries Ready only if it has a BitmapFont, and that was
\* attached in a step where the glyph-table entity carried a FontTable and the
\* sprite entity a Sprite component; Ready on the two is not asked for.
C1_ReadyOnlyAfterComponentsLoaded ==
    \A L \in Labels :
        L \in Components.Ready =>
            Has(Components.BitmapFont, L) /\ L \notin hist.unloaded

\* Two finished labels, one by the cache hit (its Label has no font yet) and
\* one by processLabel.
C1_Witness ==
    \E L1, L2 \in Labels :
        /\ {L1, L2} \subseteq Components.Ready
        /\ Components.Label[L1].Font = 0
        /\ Components.Label[L2].Font # 0

\* C2: a button is marked Ready, and leaves buttonLoadQueue, only where the
\* entities of its Normal, Pressed, Toggled, PressedToggled and Disabled states
\* all carry Ready.
C2_ButtonReadyAfterStates ==
    \A B \in Buttons :
        (B \in Components.Ready \/ ~Has(buttonLoadQueue, B)) =>
            /\ Components.Button[B].States.Normal > 0
            /\ StateRefs(B) \subseteq Components.Ready

\* A finished button with a Pressed sprite of its own.
C2_Witness ==
    \E B \in Buttons :
        /\ B \in Components.Ready
        /\ Components.Button[B].States.Pressed # Components.Button[B].States.Normal

\* C5: a button whose layout has DisabledFrame = isNotSegmented has, once its
\* states are built, the Normal entity as its Disabled state, whatever HasImage
\* and AllowFrameChange are.
C5_DisabledAliasesNormal ==
    \A B \in Buttons :
        LET b == Components.Button[B] IN
        (b.States.Normal > 0 /\ b.Layout.DisabledFrame = isNotSegmented) =>
            b.States.Disabled = b.States.Normal

\* A button with frames of its own for the other states and none for Disabled.
C5_Witness ==
    \E B \in Buttons :
        LET b == Components.Button[B] IN
        /\ b.Layout.DisabledFrame = isNotSegmented
        /\ b.Layout.HasImage /\ b.Layout.AllowFrameChange
        /\ b.States.Pressed # b.States.Normal
        /\ b.States.Disabled = b.States.Normal

\* C6: within one Update a unit of work is started only while the elapsed time
\* does not exceed the ceiling, so the Update overruns the ceiling by at most
\* the cost of one unit.
C6_NoUnitAfterCeiling ==
    /\ ~hist.late
    /\ elapsed <= maxTimePerUpdate + MaxUnitCost

\* An Update that stands over the ceiling with work left in its loop.
C6_Witness ==
    /\ pc # "idle"
    /\ todo # {}
    /\ elapsed > maxTimePerUpdate

\* The cache key the label's request stands for: F.tbl::F.dc6::P.
ExpectedKey(L) ==
    hist.request[L].font \o ".tbl" \o "::" \o hist.request[L].font \o ".dc6"
        \o "::" \o hist.request[L].palette

Count(seq, k) == Cardinality({i \in 1..Len(seq) : seq[i] = k})

\* C3, as stated: two labels of the same (table, sprite, palette) triple that
\* both have a BitmapFont reference the same font object, whatever the cache
\* answered to the inserts.
C3_SameTripleSameFont ==
    \A L1, L2 \in Labels :
        (/\ Has(Components.BitmapFont, L1) /\ Has(Components.BitmapFont, L2)
         /\ hist.request[L1] = hist.request[L2])
        => Components.BitmapFont[L1] = Components.BitmapFont[L2]

\* C3, amended: two such labels reference the same font object unless the cache
\* rejected the insert of a font built for their key.
C3_SameTripleSameFontUnlessRejected ==
    \A L1, L2 \in Labels :
        (/\ Has(Components.BitmapFont, L1) /\ Has(Components.BitmapFont, L2)
         /\ hist.request[L1] = hist.request[L2]
         /\ Components.BitmapFont[L1] # Components.BitmapFont[L2])
        => Count(hist.warnings, ExpectedKey(L1)) > 0

\* Two labels of one triple share the font object the cache holds.
C3_Witness ==
    \E L1, L2 \in Labels :
        /\ L1 # L2
        /\ hist.request[L1] = hist.request[L2]
        /\ Has(Components.BitmapFont, L1) /\ Has(Components.BitmapFont, L2)
        /\ Components.BitmapFont[L1] = Components.BitmapFont[L2]
        /\ Retrieve(bitmapFontCache, ExpectedKey(L1)) = Components.BitmapFont[L1]

\* C4, as stated: createBitmapFont makes at most one font object per key.
C4_OneFontPerKey ==
    \A i, j \in 1..Len(hist.built) : hist.built[i] = hist.built[j] => i = j

\* C4, amended: per key, at most one font object more than the inserts the
\* cache rejected for that key: a further object is built only after a
\* rejected insert.
C4_OneFontPerKeyUnlessRejected ==
    \A i \in 1..Len(hist.built) :
        Count(hist.built, hist.built[i]) <= 1 + Count(hist.warnings, hist.built[i])

\* Two labels ask for one key and one font object was built for it.
C4_Witness ==
    \E L1, L2 \in Labels :
        /\ L1 # L2
        /\ ExpectedKey(L1) = ExpectedKey(L2)
        /\ {L1, L2} \subseteq DOMAIN Components.BitmapFont
        /\ Count(hist.built, ExpectedKey(L1)) = 1
        /\ hist.warnings = <<>>

\* The scenario's start, seen where Update is about to visit the label: the
\* factory is booted, L is the one queued label and has no BitmapFont, its two
\* prerequisites are loaded and Ready, the cache is empty.
C8_Scenario(L) ==
    /\ state = SceneStateBooted
    /\ pc = "labels" /\ todo = {L} /\ elapsed = 0
    /\ DOMAIN labelLoadQueue = {L}
    /\ ~Has(Components.BitmapFont, L)
    /\ Has(Components.FontTable, labelLoadQueue[L].table)
    /\ Has(Components.Sprite, labelLoadQueue[L].sprite)
    /\ {labelLoadQueue[L].table, labelLoadQueue[L].sprite} \subseteq Components.Ready
    /\ bitmapFontCache = [lookup |-> EmptyMap, weight |-> 0]

\* The font is attached to L and cached under L's key.
C8_Materialized(L) ==
    /\ Has(Components.BitmapFont, L)
    /\ Has(bitmapFontCache.lookup, ExpectedKey(L))
    /\ bitmapFontCache.lookup[ExpectedKey(L)] = Components.BitmapFont[L]

\* A widget waits in the load queue of its kind.
Queued(e) ==
    \/ Has(buttonLoadQueue, e)
    \/ Has(checkboxLoadQueue, e)
    \/ Has(labelLoadQueue, e)

\* Some widget waits in a load queue.
Backlog == \E e \in 1..MaxEntities : Queued(e)

\* C7: with units of bounded cost, the factory booted in the end and every
\* prerequisite loaded in the end, repeated Updates bring every queued button,
\* checkbox and label to Ready and out of its queue, whatever the backlog. The
\* world hands out finitely many entities, so this says: whenever widgets wait,
\* a state follows in which none waits and all that were created carry Ready.
C7_EveryQueuedWidgetFinishes ==
    Backlog ~> (~Backlog /\ DOMAIN hist.created \subseteq Components.Ready)

\* C8, as stated: from the scenario's start one Update leaves the label with a
\* BitmapFont, the font cached under its key, and the label Ready.
C8_OneUpdateFinishesLabel ==
    [][\A L \in Labels :
          C8_Scenario(L) => (C8_Materialized(L) /\ L \in Components.Ready)']_vars

\* C8, amended: the first Update attaches and caches the font and leaves the
\* label queued and not Ready; the Update that next visits the label marks it
\* Ready and removes its queue entry.
C8_TwoUpdatesFinishLabel ==
    [][\A L \in Labels :
          /\ C8_Scenario(L) =>
                (/\ C8_Materialized(L)
                 /\ L \notin Components.Ready
                 /\ Has(labelLoadQueue, L))'
          /\ (/\ pc = "labels" /\ todo = {L} /\ elapsed <= maxTimePerUpdate
              /\ Has(labelLoadQueue, L)
              /\ Has(Components.BitmapFont, L))
             => (L \in Components.Ready /\ ~Has(labelLoadQueue, L))']_vars

\* The label of the scenario after its second Update.
C8_Witness ==
    \E L \in Labels :
        /\ L \in Components.Ready
        /\ Labels = {L}
        /\ hist.built = <<ExpectedKey(L)>>
        /\ C8_Materialized(L)
        /\ Components.Label[L].Font = Components.BitmapFont[L]
        /\ L \notin hist.early

\* C9: between operations a widget has an entry in the load queue of its kind
\* exactly if it was created by Label, Button or Checkbox and does not carry
\* Ready: it is marked Ready and taken from the queue in one step.
C9_QueuedIffNotReady ==
    /\ DOMAIN labelLoadQueue = {L \in Labels : L \notin Components.Ready}
    /\ DOMAIN buttonLoadQueue = {B \in Buttons : B \notin Components.Ready}
    /\ DOMAIN checkboxLoadQueue = {C \in Checkboxes : C \notin Components.Ready}

\* A finished button beside a checkbox that still waits.
C9_Witness ==
    /\ \E B \in Buttons : B \in Components.Ready /\ ~Has(buttonLoadQueue, B)
    /\ \E C \in Checkboxes : C \notin Components.Ready /\ Has(checkboxLoadQueue, C)

\* C10: no step takes Ready from an entity that still exists, and no widget is
\* given Ready more than once.
C10_ReadyOnceAndKept ==
    [][/\ \A e \in World.entities' :
             e \in Components.Ready => e \in Components.Ready'
       /\ \A e \in DOMAIN hist.readyAdds' :
             Has(hist.created', e) => hist.readyAdds'[e] <= 1]_vars

\* A label marked Ready once, its glyph-table entity destroyed, seen again by a
\* later Update.
C10_Witness ==
    \E L \in Labels :
        /\ L \in Components.Ready
        /\ hist.readyAdds[L] = 1
        /\ Cardinality(World.entities) < World.nextEntityID
        /\ Has(Components.Texture, L)

\* ---------------------------------------------- the claims on buttons (cont.)

\* The prerequisite entities in a waiting button's queue entry.
Prerequisites(B) == {buttonLoadQueue[B].label, buttonLoadQueue[B].sprite}

\* The state sprite entities a button has been given so far.
BuiltStates(B) == StateRefs(B) \ {0}

C11_Distinct ==
    \A B1, B2 \in Buttons :
        B1 # B2 =>
            /\ (Has(buttonLoadQueue, B1) /\ Has(buttonLoadQueue, B2)) =>
                   /\ buttonLoadQueue[B1].label # buttonLoadQueue[B2].label
                   /\ buttonLoadQueue[B1].sprite # buttonLoadQueue[B2].sprite
                   /\ Prerequisites(B1) \cap Prerequisites(B2) = {}
            /\ BuiltStates(B1) \cap BuiltStates(B2) = {}

\* A step in which Button() is called (no other step hands out entities
\* between two Updates) adds one button, on an entity not used before.
C11_FreshButton ==
    (pc = "idle" /\ World' # World) =>
        \E B \in Buttons' \ Buttons :
            /\ Buttons' = Buttons \cup {B}
            /\ B \notin World.entities
            /\ B > World.nextEntityID

\* C11: any two Button() calls give two distinct button entities; the label and
\* sprite entities in the two queue entries are distinct, and no state sprite
\* entity is a state of both buttons.
C11_ButtonsShareNothing == []C11_Distinct /\ [][C11_FreshButton]_vars

\* Two waiting buttons, the state sprites of both built.
C11_Witness ==
    \E B1, B2 \in Buttons :
        /\ B1 # B2
        /\ Has(buttonLoadQueue, B1) /\ Has(buttonLoadQueue, B2)
        /\ BuiltStates(B1) # {} /\ BuiltStates(B2) # {}

\* A queued button whose label or sprite prerequisite does not carry Ready.
Waiting(B) ==
    /\ Has(buttonLoadQueue, B)
    /\ ~(/\ buttonLoadQueue[B].label \in Components.Ready
         /\ buttonLoadQueue[B].sprite \in Components.Ready)

\* C12: processButton on a button whose queued label or sprite does not carry
\* Ready changes nothing. In a step of the button loop every such button keeps
\* its component, its queue entry (so the next Update visits it again) and its
\* lack of Ready; and when every button the loop has left is such a button, the
\* step changes no entity, no component, no queue and not the cache.
C12_WaitingButtonUnchanged ==
    [][pc = "buttons" =>
          /\ \A B \in todo :
                Waiting(B) =>
                  /\ Components'.Button[B] = Components.Button[B]
                  /\ Has(buttonLoadQueue', B)
                  /\ buttonLoadQueue'[B] = buttonLoadQueue[B]
                  /\ B \notin Components'.Ready
          /\ (\A B \in todo : Waiting(B)) =>
                UNCHANGED <<World, Components, buttonLoadQueue, checkboxLoadQueue,
                            labelLoadQueue, state, bitmapFontCache,
                            spriteLoadQueue>>]_vars

\* The button loop of this Update has visited a button whose sprite is Ready
\* and whose label is not: the label loop, not yet at that label, runs now.
C12_Witness ==
    \E B \in Buttons :
        /\ pc = "labels"
        /\ Waiting(B)
        /\ buttonLoadQueue[B].sprite \in Components.Ready
        /\ buttonLoadQueue[B].label \in todo
        /\ Components.Button[B].States = NoStates

\* ------------------------------------------------- the claims on checkboxes

\* A queued checkbox whose sprite entity does not carry Ready.
WaitingCheckbox(C) ==
    /\ Has(checkboxLoadQueue, C)
    /\ checkboxLoadQueue[C].sprite \notin Components.Ready

\* C13: a checkbox is marked Ready only in a step at whose start its queued
\* sprite entity carries Ready, and in that step it is given an Interactive and
\* a Texture component and its queue entry is removed; in a step of the checkbox
\* loop a checkbox whose sprite is not Ready keeps its components and its queue
\* entry, and when the loop has only such checkboxes left nothing changes.
C13_CheckboxReadyWithSprite ==
    [][/\ \A C \in Checkboxes :
             (C \notin Components.Ready /\ C \in Components'.Ready) =>
                /\ pc = "checkboxes"
                /\ Has(checkboxLoadQueue, C)
                /\ checkboxLoadQueue[C].sprite \in Components.Ready
                /\ C \in Components'.Interactive
                /\ Has(Components'.Texture, C)
                /\ ~Has(checkboxLoadQueue', C)
       /\ pc = "checkboxes" =>
             /\ \A C \in todo :
                   WaitingCheckbox(C) =>
                     /\ Components'.Checkbox[C] = Components.Checkbox[C]
                     /\ C \notin Components'.Interactive
                     /\ ~Has(Components'.Texture, C)
                     /\ C \notin Components'.Ready
                     /\ Has(checkboxLoadQueue', C)
                     /\ checkboxLoadQueue'[C] = checkboxLoadQueue[C]
             /\ (\A C \in todo : WaitingCheckbox(C)) =>
                   UNCHANGED <<World, Components, buttonLoadQueue,
                               checkboxLoadQueue, labelLoadQueue, state,
                               bitmapFontCache, spriteLoadQueue>>]_vars

\* A finished checkbox beside one the same loop left waiting for its sprite.
C13_Witness ==
    \E C1, C2 \in Checkboxes :
        /\ C1 \in Components.Ready
        /\ C1 \in Components.Interactive
        /\ Has(Components.Texture, C1)
        /\ ~Has(checkboxLoadQueue, C1)
        /\ Components.Checkbox[C1].Sprite # Nil
        /\ WaitingCheckbox(C2)
        /\ pc \notin {"idle", "buttons", "checkboxes"}

\* ------------------------------------------------------------ the boot gate

\* What the factory's loops write: widget components, Ready, queues, the cache.
Untouched ==
    /\ UNCHANGED <<World, bitmapFontCache, spriteLoadQueue>>
    /\ DOMAIN buttonLoadQueue' = DOMAIN buttonLoadQueue
    /\ DOMAIN checkboxLoadQueue' = DOMAIN checkboxLoadQueue
    /\ DOMAIN labelLoadQueue' = DOMAIN labelLoadQueue
    /\ UNCHANGED <<Components.BitmapFont, Components.Label, Components.Button,
                   Components.Checkbox, Components.Interactive,
                   Components.SceneGraphNode>>
    /\ Components'.Ready \cap DOMAIN hist.created
          = Components.Ready \cap DOMAIN hist.created

\* While the factory is not Booted no loop of Update runs and no widget has got
\* anything from one.
C14_Gated ==
    state # SceneStateBooted =>
        /\ pc = "idle"
        /\ Components.BitmapFont = EmptyMap
        /\ Components.Interactive = {}
        /\ Components.SceneGraphNode = EmptyMap
        /\ Components.Ready \cap DOMAIN hist.created = {}
        /\ hist.built = <<>>
        /\ \A B \in Buttons : Components.Button[B].States = NoStates

\* The step that boots: the render system is there and has its renderer, and
\* the step does nothing else; a Booted factory stays Booted.
C14_BootStep ==
    /\ (state # SceneStateBooted /\ state' = SceneStateBooted) =>
          /\ ~RenderSystem.isNil
          /\ RenderSystem.renderer # Nil
          /\ Untouched
          /\ UNCHANGED <<Components, RenderSystem>>
          /\ pc' = "idle"
    /\ state = SceneStateBooted => state' = SceneStateBooted
    /\ state' \in {SceneStateUninitialized, SceneStateBooted}

\* C14: while the state is not Booted, Update processes no queue entry and
\* updates no Ready widget, the Update that boots included; the state becomes
\* Booted only in an Update that finds a render system with a renderer; and a
\* Booted factory never leaves Booted.
C14_BootGate == []C14_Gated /\ [][C14_BootStep]_vars

\* Not Booted, the render system injected without a renderer, and a checkbox
\* waits although its sprite is Ready.
C14_Witness ==
    /\ state # SceneStateBooted
    /\ ~RenderSystem.isNil
    /\ RenderSystem.renderer = Nil
    /\ \E C \in Checkboxes :
          /\ Has(checkboxLoadQueue, C)
          /\ checkboxLoadQueue[C].sprite \in Components.Ready

\* ------------------------------------------- the claims on labels (cont.)

\* C15: in a step that marks a queued label Ready and removes its queue entry,
\* the glyph-table entity of that entry is destroyed: after the step it is no
\* entity of the world, by the cache hit as well as after a cache miss.
C15_GlyphTableDestroyed ==
    [][\A L \in Labels :
          (/\ Has(labelLoadQueue, L)
           /\ L \in Components'.Ready
           /\ ~Has(labelLoadQueue', L))
          => labelLoadQueue[L].table \notin World'.entities]_vars

\* C16: a label that carries Ready has, in its Label component, the font
\* object of its BitmapFont component: the font reference is attached no later
\* than the step that marks the label Ready.
C16_ReadyLabelHasItsFont ==
    \A L \in Labels :
        L \in Components.Ready =>
            /\ Has(Components.BitmapFont, L)
            /\ Has(Components.Label, L)
            /\ Components.Label[L].Font = Components.BitmapFont[L]

\* ------------------------------------------ the claims on button states

\* C17: the state sprites of a button are constructed exactly once. The button
\* loop, at a queued button with Ready prerequisites and no Normal state yet,
\* creates the state sprites its layout asks for; once the Normal reference is
\* set, no step changes any of the five references, and a step of the button
\* loop that has only such buttons left creates no entity and asks for no
\* sprite.
C17_StatesBuiltOnce ==
    [][/\ \A B \in Buttons :
             Components.Button[B].States.Normal > 0 =>
                Components'.Button[B].States = Components.Button[B].States
       /\ (/\ pc = "buttons"
           /\ \A B \in todo : Components.Button[B].States.Normal > 0)
          => UNCHANGED <<World, spriteLoadQueue>>
       /\ \A B \in Buttons :
             (/\ pc = "buttons" /\ todo = {B} /\ ~timeIsUp(elapsed)
              /\ ~Waiting(B)
              /\ Components.Button[B].States = NoStates)
             => /\ Components'.Button[B].States.Normal > 0
                /\ World'.nextEntityID =
                      World.nextEntityID + StateSprites(Components.Button[B].Layout)
                /\ BuiltStates(B)' \cap World.entities = {}]_vars

\* A queued button whose Normal sprite was loaded after it was created, so in
\* a later tick, has been visited again by the button loop that runs now.
C17_Witness ==
    \E B \in Buttons :
        /\ pc = "buttons"
        /\ todo # {}
        /\ B \notin todo
        /\ Has(buttonLoadQueue, B)
        /\ Components.Button[B].States.Normal > 0
        /\ Has(Components.Sprite, Components.Button[B].States.Normal)
        /\ Components.Button[B].States.Normal \notin Components.Ready

\* An entity the sprite factory has handed out: its sprite is pending or loaded.
AllocatedSprite(e) ==
    /\ e \in World.entities
    /\ Has(spriteLoadQueue, e) \/ Has(Components.Sprite, e)

\* The state references of a button whose states are built, by its layout.
C18_StatesByLayout ==
    \A B \in Buttons :
        LET S == Components.Button[B].States
            L == Components.Button[B].Layout
        IN  S.Normal > 0 =>
              /\ \A e \in StateRefs(B) : AllocatedSprite(e)
              /\ IF ~L.HasImage \/ ~L.AllowFrameChange
                 THEN StateRefs(B) = {S.Normal}
                 ELSE /\ Cardinality({S.Normal, S.Pressed, S.Toggled,
                                      S.PressedToggled}) = 4
                      /\ S.Disabled \notin {S.Pressed, S.Toggled, S.PressedToggled}

\* The entities the construction of a button's states creates, by its layout.
C18_SpritesCreated ==
    \A B \in Buttons :
        LET L == Components.Button[B].Layout IN
        (Components.Button[B].States.Normal = 0
            /\ Components'.Button[B].States.Normal > 0)
        => /\ BuiltStates(B)' \cap World.entities = {}
           /\ Cardinality(World'.entities \ World.entities) =
                 Cardinality(BuiltStates(B)')
           /\ (~L.HasImage \/ ~L.AllowFrameChange) =>
                 World'.nextEntityID = World.nextEntityID + 1
           /\ (L.HasImage /\ L.AllowFrameChange) =>
                 World'.nextEntityID \in {World.nextEntityID + 4,
                                          World.nextEntityID + 5}

\* C18: for a layout with HasImage false or AllowFrameChange false the
\* construction creates one sprite entity and Pressed, Toggled, PressedToggled
\* and Disabled all reference it, as Normal does, whatever DisabledFrame is;
\* for any other layout Pressed, Toggled and PressedToggled are three further
\* new entities, and all five references are entities the sprite factory has
\* handed out.
C18_AliasingByLayout == []C18_StatesByLayout /\ [][C18_SpritesCreated]_vars

\* A button with an image, no frame change and a disabled frame of its own in
\* its layout: its five states are one entity.
C18_Witness ==
    \E B \in Buttons :
        LET S == Components.Button[B].States
            L == Components.Button[B].Layout
        IN  /\ L.HasImage /\ ~L.AllowFrameChange
            /\ L.DisabledFrame # isNotSegmented
            /\ S.Normal > 0
            /\ StateRefs(B) = {S.Normal}
            /\ B \in Components.Ready

\* --------------------------------------------------- the rejected insert

\* The step logs a warning: the cache has rejected an insert.
Rejected == Len(hist.warnings') = Len(hist.warnings) + 1

\* C19: in the step in which the cache rejects the insert, the font just built
\* becomes the BitmapFont of a queued label that had none, a warning for its
\* key is all that is logged, and no queue, no Ready, not the cache and not
\* the factory's state change; and a queued label that holds a font the cache
\* does not hold is marked Ready, and leaves the queue, when the label loop
\* next visits it.
C19_RejectedInsertStillServes ==
    [][/\ Rejected =>
             /\ pc = "labels"
             /\ Len(hist.built') = Len(hist.built) + 1
             /\ hist.warnings' = Append(hist.warnings, hist.built'[Len(hist.built')])
             /\ \E L \in todo :
                   /\ Has(labelLoadQueue, L)
                   /\ ~Has(Components.BitmapFont, L)
                   /\ Components'.BitmapFont =
                         Put(Components.BitmapFont, L, Len(hist.built'))
                   /\ hist.built'[Len(hist.built')] = ExpectedKey(L)
             /\ UNCHANGED <<buttonLoadQueue, checkboxLoadQueue, labelLoadQueue,
                            bitmapFontCache, state, World, Components.Ready>>
       /\ \A L \in Labels :
             (/\ pc = "labels" /\ todo = {L} /\ ~timeIsUp(elapsed)
              /\ Has(labelLoadQueue, L)
              /\ Has(Components.BitmapFont, L)
              /\ Retrieve(bitmapFontCache, ExpectedKey(L)) # Components.BitmapFont[L])
             => /\ L \in Components'.Ready
                /\ ~Has(labelLoadQueue', L)
                /\ Components'.Label[L].Font = Components.BitmapFont[L]]_vars

\* A Ready label that holds the font built for it, which the cache, having
\* rejected it with a warning, does not hold.
C19_Witness ==
    \E L \in Labels :
        /\ L \in Components.Ready
        /\ Has(Components.BitmapFont, L)
        /\ Components.Label[L].Font = Components.BitmapFont[L]
        /\ hist.built[Components.BitmapFont[L]] = ExpectedKey(L)
        /\ Count(hist.warnings, ExpectedKey(L)) > 0
        /\ Retrieve(bitmapFontCache, ExpectedKey(L)) = 0

\* ------------------------------------------------------ Button() on return

\* C20: on return of Button() the new button is not Ready and its queue entry
\* is {label, sprite}, two new entities, the sprite asked of the sprite
\* factory. For a layout without a font the label is a placeholder entity that
\* carries Ready, has no Label component and no entry in the label load queue;
\* for a layout with a font the label was made by Label(): it has a Label
\* component and a label load-queue entry, and does not carry Ready.
C20_ButtonOnReturn ==
    [][\A B \in Buttons' \ Buttons :
          /\ B \notin Components'.Ready
          /\ Has(buttonLoadQueue', B)
          /\ buttonLoadQueue' = Put(buttonLoadQueue, B, buttonLoadQueue'[B])
          /\ Components'.Button[B].States = NoStates
          /\ LET l == buttonLoadQueue'[B].label
                 sp == buttonLoadQueue'[B].sprite
                 L == Components'.Button[B].Layout
             IN  /\ {l, sp} \subseteq World'.entities \ World.entities
                 /\ l # sp /\ l # B /\ sp # B
                 /\ Has(spriteLoadQueue', sp)
                 /\ sp \notin Components'.Ready
                 /\ IF L.FontPath = ""
                    THEN /\ l \in Components'.Ready
                         /\ ~Has(labelLoadQueue', l)
                         /\ ~Has(Components'.Label, l)
                         /\ labelLoadQueue' = labelLoadQueue
                    ELSE /\ l \notin Components'.Ready
                         /\ Has(labelLoadQueue', l)
                         /\ Has(Components'.Label, l)
                         /\ hist.created'[l] = "label"
                         /\ hist.request'[l].font = L.FontPath]_vars

\* Right after Button() for a layout without a font: the button waits with a
\* Ready placeholder label and a sprite that is not loaded yet.
C20_Witness ==
    \E B \in Buttons :
        /\ Components.Button[B].Layout.FontPath = ""
        /\ Has(buttonLoadQueue, B)
        /\ B \notin Components.Ready
        /\ buttonLoadQueue[B].label \in Components.Ready
        /\ ~Has(labelLoadQueue, buttonLoadQueue[B].label)
        /\ World.nextEntityID = buttonLoadQueue[B].sprite
        /\ ~Has(Components.Sprite, buttonLoadQueue[B].sprite)

\* ------------------------------------------------- the claims on the Logger

\* The messages written so far.
Written == {Writer[i].msg : i \in 1..Len(Writer)}

\* Fatal's two statements, and the end of the process.
C21_FatalStep ==
    /\ (process = "running" /\ process' = "exiting") =>
          /\ goroutines' = Append(goroutines, [level |-> LogLevelFatal, at |-> "start"])
          /\ Writer' = Writer
    /\ (process = "exiting" /\ process' = "exited") =>
          UNCHANGED <<Writer, goroutines, Logger>>
    /\ process = "exited" => UNCHANGED <<Writer, goroutines, Logger, process>>

\* C21: Fatal starts the goroutine of the write and then exits: once the
\* goroutine is started the exit can be taken at once, whatever the goroutine
\* has done, and after the exit nothing is written any more. So the process
\* can end with the fatal message unwritten.
C21_FatalExitRacesWrite ==
    [](process = "exiting" => ENABLED osExit) /\ [][C21_FatalStep]_vars

\* The process has ended, and the fatal message, which the level would have let
\* pass, is not written.
C21_Witness ==
    /\ process = "exited"
    /\ goroutines[Len(goroutines)].level = LogLevelFatal
    /\ goroutines[Len(goroutines)].at # "returned"
    /\ Logger.level >= LogLevelFatal
    /\ Len(goroutines) \notin Written

\* The goroutines inside the body of print, between Lock and Unlock.
InPrint == {g \in 1..Len(goroutines) : goroutines[g].at \in {"locked", "format"}}

\* A log call goes through whoever holds the mutex, and the mutex is held by
\* the one goroutine inside print, if there is one.
C22_CallsFreeBodiesApart ==
    /\ (process = "running" /\ Len(goroutines) < MaxCalls) =>
          /\ ENABLED Info
          /\ ENABLED Warning
          /\ ENABLED Error
          /\ ENABLED Debug
    /\ Cardinality(InPrint) <= 1
    /\ InPrint = IF Logger.mutex = 0 THEN {} ELSE {Logger.mutex}

\* A log call changes nothing but the goroutines; a message is written in one
\* step, by the holder of the mutex, if the level the Logger has at that time
\* lets it pass, and is dropped if that level does not; the level does not
\* change while a goroutine is inside print.
C22_PrintStep ==
    /\ Len(goroutines') > Len(goroutines) =>
          UNCHANGED <<Logger, Writer>>
    /\ Writer' # Writer =>
          \E g \in InPrint :
              /\ g = Logger.mutex
              /\ Writer' = Append(Writer, [msg |-> g, level |-> goroutines[g].level])
              /\ goroutines[g].level <= Logger.level
              /\ g \notin Written
    /\ \A g \in InPrint :
          (goroutines'[g].at = "returned" /\ Writer' = Writer) =>
              Logger.level < goroutines[g].level
    /\ InPrint # {} => Logger'.level = Logger.level

\* C22: a log call never waits, for the mutex or anything else; the bodies of
\* two prints never overlap, so each message is written whole; a message is
\* written or dropped by the level the Logger has when its print runs. The
\* writes follow no order: see the witness for a later call written first.
C22_UnorderedWholeWrites == []C22_CallsFreeBodiesApart /\ [][C22_PrintStep]_vars

\* Two messages written in the order opposite to that of their calls.
C22_Witness ==
    \E i, j \in 1..Len(Writer) :
        /\ i < j
        /\ Writer[i].msg > Writer[j].msg

\* ------------------------------------------ the claims on ButtonTestScene

\* What the scene has added to the position of an entity so far.
Moved(tr, e) == IF Has(tr, e) THEN tr[e] ELSE 0

\* The step is an Update of the scene.
SceneTick == sceneHist'.updates = sceneHist.updates + 1

\* createButtons has run once when the scene is Booted, and never before; the
\* buttons of the world are those it created.
C23_CreatedOnce ==
    /\ sceneHist.createButtons <= 1
    /\ ButtonTestScene.state = SceneStateBooted <=> sceneHist.createButtons = 1
    /\ Cardinality(Buttons) = sceneHist.createButtons
    /\ ButtonTestScene.state \in {SceneStateUninitialized, SceneStateBooted}

C23_UpdateStep ==
    /\ sceneHist'.createButtons # sceneHist.createButtons =>
          /\ SceneTick
          /\ ~BaseScene.paused
          /\ BaseScene.booted
          /\ ButtonTestScene.state = SceneStateUninitialized
          /\ sceneHist'.createButtons = sceneHist.createButtons + 1
    /\ Buttons' # Buttons => sceneHist'.createButtons # sceneHist.createButtons
    /\ (SceneTick /\ BaseScene.paused) =>
          UNCHANGED <<factoryVars, loggerVars, ButtonTestScene, BaseScene,
                      Translation, sceneHist.createButtons>>
    /\ \A e \in DOMAIN Translation' :
          Moved(Translation', e) # Moved(Translation, e) =>
              /\ SceneTick
              /\ ~BaseScene.paused
              /\ ButtonTestScene.state = SceneStateBooted
              /\ ButtonTestScene'.state = SceneStateBooted
              /\ Has(Components.Button, e)
              /\ e \in Components.Ready
              /\ Moved(Translation', e) = Moved(Translation, e) + 1
    /\ DOMAIN Translation \subseteq DOMAIN Translation'

\* C23: over the Updates of the scene createButtons runs at most once, in an
\* Update that finds the scene not paused and the base scene booted before; an
\* Update of the paused scene changes nothing; and a position is advanced, by
\* one per Update, only for a button that carries Ready and only in an Update
\* of the Booted, unpaused scene.
C23_SceneBootsOnceMovesReady == []C23_CreatedOnce /\ [][C23_UpdateStep]_vars

\* The scene has created its button and moved it once it was Ready, in fewer
\* Updates than it was given, and is paused now.
C23_Witness ==
    \E B \in Buttons :
        /\ sceneHist.createButtons = 1
        /\ B \in Components.Ready
        /\ Moved(Translation, B) >= 1
        /\ Moved(Translation, B) + 2 < sceneHist.updates
        /\ BaseScene.paused

====
